---- MODULE Spec2Model ----
(***************************************************************************)
(* State-machine model of the travel-list backend: the user routes of      *)
(* backend/src/user.js, the city routes of backend/src/city.js and the     *)
(* limits of backend/config/config.js.                                     *)
(*                                                                         *)
(* Strings that the code inspects character by character (usernames, the   *)
(* keys of the city data file) are sequences of one-character strings.     *)
(* City names, attractions and restaurants are opaque to the code (only    *)
(* compared with ===), so they are natural numbers; 0 stands for a missing *)
(* or empty (falsy) value.  A JSON object is a function from its keys; a   *)
(* key that is absent (or null) is not in the DOMAIN.                      *)
(*                                                                         *)
(* users is the users file of user.js (USERS_FILE), data the city data     *)
(* file at the configured path, session the session store (session id ->   *)
(* username), config the file names of the configuration (data for the     *)
(* cities file, users for the users file), files the contents of the files *)
(* that are at neither place, resp the last response sent, with the        *)
(* request it answers.  requests holds, for the specifications that take a *)
(* handler in two steps (its read of the data file, then the rest), the    *)
(* requests the server has accepted, each with the position of its handler.*)
(***************************************************************************)
EXTENDS Integers, Sequences, FiniteSets, TLC

VARIABLES users, data, session, resp, requests, config, files

vars == <<users, data, session, resp, requests, config, files>>

----------------------------------------------------------------------------
(* Limits: config.defaults of backend/config/config.js *)

maxCitiesPerUser == 10

maxAttractionsPerCity == 5

maxRestaurantsPerCity == 5

----------------------------------------------------------------------------
(* Bounds of the model *)

\* city names a client may send: 1..NumCityNames
NumCityNames == 11

\* attraction / restaurant names a client may send: 1..NumItems
NumItems == 6

\* longest city list written straight to the data file (as the tests do)
MaxStored == 15

\* longest attractions / restaurants list written straight to the data file
MaxStoredItems == 7

\* longest username tried against the email pattern
MaxNameLen == 5

\* requests the clients of one user send while others are in flight
MaxRequests == 2

\* city names the frontend user types when adding or renaming a city
NumEditNames == 3

----------------------------------------------------------------------------
(* Values *)

U1 == <<"a", "@", "b", ".", "c">>

U2 == <<"b", "@", "b", ".", "c">>

\* the key `latest` of the data file
LatestKey == <<"l", "a", "t", "e", "s", "t">>

Sessions == {"s1", "s2"}

Whitespace == {" ", "\t", "\n"}

Min(a, b) == IF a < b THEN a ELSE b

Max(a, b) == IF a > b THEN a ELSE b

EmptyObject == [k \in {} |-> <<>>]

----------------------------------------------------------------------------
(* JavaScript helpers *)

\* Array.prototype.slice(begin, end): negative indexes count from the end
RelIndex(i, len) == IF i < 0 THEN Max(len + i, 0) ELSE Min(i, len)

slice(seq, begin, end) ==
  LET b == RelIndex(begin, Len(seq))
      e == RelIndex(end, Len(seq))
  IN  IF b >= e THEN <<>> ELSE SubSeq(seq, b + 1, e)

\* slice(begin) with one argument
sliceFrom(seq, begin) == slice(seq, begin, Len(seq))

\* (city.attractions || []), (city.restaurants || [])
ListOf(city, field) == IF field \in DOMAIN city THEN city[field] ELSE <<>>

\* city.field = value
WithField(city, field, value) ==
  [f \in DOMAIN city \cup {field} |-> IF f = field THEN value ELSE city[f]]

\* obj[key] = value
WithKey(obj, key, value) ==
  [k \in DOMAIN obj \cup {key} |-> IF k = key THEN value ELSE obj[k]]

\* mutant: no city is ever found
findIndexNone(cities, name) == 0

\* mutant: the search skips the first city
findIndexAfterFirst(cities, name) ==
  IF \E i \in 2..Len(cities) : cities[i].name = name
  THEN CHOOSE i \in 2..Len(cities) : cities[i].name = name
  ELSE 0

\* cities.findIndex(c => c.name === name), 1-based, 0 when there is none
findIndex(cities, name) ==
  IF \E i \in 1..Len(cities) : cities[i].name = name
  THEN CHOOSE i \in 1..Len(cities) :
         /\ cities[i].name = name
         /\ \A j \in 1..(i - 1) : cities[j].name # name
  ELSE 0

\* mutant: unshift instead of push
pushFront(list, item) == <<item>> \o list

\* list.push(item)
push(list, item) == Append(list, item)

\* mutant: no item is recognised as already present
IncludesNever(list, item) == FALSE

\* list.findIndex(a => a === item) !== -1
Includes(list, item) == \E i \in 1..Len(list) : list[i] = item

\* list.filter(a => a !== item)
Without(list, item) == SelectSeq(list, LAMBDA a : a # item)

\* cities.filter(c => c.name !== cityName)
WithoutCity(cities, cityName) == SelectSeq(cities, LAMBDA c : c.name # cityName)

----------------------------------------------------------------------------
(* user.js *)

\* mutant: any string holding an "@" passes
isValidEmailLoose(email) == \E p \in 1..Len(email) : email[p] = "@"

\* /^[^@\s]+@[^@\s]+\.[^@\s]+$/.test(email)
isValidEmail(email) ==
  \E p \in 1..Len(email) :
    /\ email[p] = "@"
    /\ p > 1
    /\ \A i \in 1..Len(email) :
         /\ email[i] \notin Whitespace
         /\ (i # p => email[i] # "@")
    /\ \E q \in (p + 2)..(Len(email) - 1) : email[q] = "."

\* mutant: a request without a session is served as the first user
SessionUserDefault(s) == IF s \in DOMAIN session THEN session[s] ELSE U1

\* req.session.user && req.session.user.username; <<>> when there is none
SessionUser(s) == IF s \in DOMAIN session THEN session[s] ELSE <<>>

Response(op, s, req, status, body) ==
  [op |-> op, s |-> s, req |-> req, status |-> status, body |-> body]

\* the handler answers; it ran from the arrival of its request to the
\* response in this one step
Reply(op, s, req, status, body) ==
  /\ resp' = Response(op, s, req, status, body)
  /\ UNCHANGED <<requests, config, files>>

\* mutant: the check for an existing user is left out
UserTakenNever(username) == FALSE

\* users.find(u => u.username === username)
UserTaken(username) == \E i \in 1..Len(users) : users[i].username = username

\* mutant: the new record replaces the users file instead of joining it
RegisterReplaces(s, username, password) ==
  LET req == [username |-> username, password |-> password] IN
  IF username = <<>> \/ password = ""
  THEN /\ Reply("register", s, req, 400, "Username and password required")
       /\ UNCHANGED <<users, data, session>>
  ELSE IF ~isValidEmail(username)
  THEN /\ Reply("register", s, req, 400, "A valid email is required")
       /\ UNCHANGED <<users, data, session>>
  ELSE IF \E i \in 1..Len(users) : users[i].username = username
  THEN /\ Reply("register", s, req, 409, "User already exists")
       /\ UNCHANGED <<users, data, session>>
  ELSE /\ users' = <<[username |-> username, password |-> password]>>
       /\ session' = WithKey(session, s, username)
       /\ Reply("register", s, req, 200, username)
       /\ UNCHANGED data

\* POST /users/register
Register(s, username, password) ==
  LET req == [username |-> username, password |-> password] IN
  IF username = <<>> \/ password = ""
  THEN /\ Reply("register", s, req, 400, "Username and password required")
       /\ UNCHANGED <<users, data, session>>
  ELSE IF ~isValidEmail(username)
  THEN /\ Reply("register", s, req, 400, "A valid email is required")
       /\ UNCHANGED <<users, data, session>>
  ELSE IF UserTaken(username)
  THEN /\ Reply("register", s, req, 409, "User already exists")
       /\ UNCHANGED <<users, data, session>>
  ELSE /\ users' = Append(users, [username |-> username, password |-> password])
       /\ session' = WithKey(session, s, username)
       /\ Reply("register", s, req, 200, username)
       /\ UNCHANGED data

\* mutant: the password is not compared
FindUserByName(username, password) ==
  \E i \in 1..Len(users) : users[i].username = username

\* users.find(u => u.username === username && u.password === password)
FindUser(username, password) ==
  \E i \in 1..Len(users) :
    users[i].username = username /\ users[i].password = password

\* POST /users/login
Login(s, username, password) ==
  LET req == [username |-> username, password |-> password] IN
  IF ~isValidEmail(username)
  THEN /\ Reply("login", s, req, 400, "A valid email is required")
       /\ UNCHANGED <<users, data, session>>
  ELSE IF ~FindUser(username, password)
  THEN /\ Reply("login", s, req, 401, "Invalid credentials")
       /\ UNCHANGED <<users, data, session>>
  ELSE /\ session' = WithKey(session, s, username)
       /\ Reply("login", s, req, 200, username)
       /\ UNCHANGED <<users, data>>

\* mutant: logout answers without destroying the session
LogoutKeepsSession(s) ==
  /\ resp' = [op |-> "logout", s |-> s, req |-> EmptyObject, status |-> 200,
              body |-> "Logged out"]
  /\ UNCHANGED <<requests, config, files>>
  /\ UNCHANGED <<users, data, session>>

\* POST /users/logout
Logout(s) ==
  /\ session' = [t \in DOMAIN session \ {s} |-> session[t]]
  /\ Reply("logout", s, EmptyObject, 200, "Logged out")
  /\ UNCHANGED <<users, data>>

\* GET /users/me
Me(s) ==
  /\ IF s \in DOMAIN session
     THEN Reply("me", s, EmptyObject, 200, session[s])
     ELSE Reply("me", s, EmptyObject, 401, "Not logged in")
  /\ UNCHANGED <<users, data, session>>

----------------------------------------------------------------------------
(* city.js *)

\* mutant: the first attractions / restaurants instead of the last
ShownFirst(city) ==
  WithField(
    WithField(city, "attractions",
              slice(ListOf(city, "attractions"), 0, maxAttractionsPerCity)),
    "restaurants",
    slice(ListOf(city, "restaurants"), 0, maxRestaurantsPerCity))

\* the map callback: each city with the last attractions / restaurants only
Shown(city) ==
  WithField(
    WithField(city, "attractions",
              sliceFrom(ListOf(city, "attractions"), -maxAttractionsPerCity)),
    "restaurants",
    sliceFrom(ListOf(city, "restaurants"), -maxRestaurantsPerCity))

\* a data file that exists and whose text cannot be read or is not JSON; it
\* is told apart from every parsed file by its key, the empty username, under
\* which nothing is ever stored
Unreadable == [k \in {<<>>} |-> <<>>]

\* readData: fs.readFileSync or JSON.parse throws; nothing catches it. (A
\* missing file is EmptyObject: readData returns its default, which holds no
\* username and a null `latest`.)
readDataThrows(file) == file = Unreadable

\* mutant: the first cities instead of the last
getUserCitiesFirst(username) ==
  LET cities == IF username # <<>> /\ username \in DOMAIN data
                THEN data[username]
                ELSE IF LatestKey \in DOMAIN data THEN data[LatestKey]
                ELSE <<>>
      first  == slice(cities, 0, maxCitiesPerUser)
  IN  [i \in 1..Len(first) |-> Shown(first[i])]

\* the body of getUserCities, file being what readData() returned
CitiesIn(file, username) ==
  LET cities == IF username # <<>> /\ username \in DOMAIN file
                THEN file[username]
                ELSE IF LatestKey \in DOMAIN file THEN file[LatestKey]
                ELSE <<>>
      last   == sliceFrom(cities, -maxCitiesPerUser)
  IN  [i \in 1..Len(last) |-> Shown(last[i])]

getUserCities(username) == CitiesIn(data, username)

\* GET /cities; an exception of readData reaches Express, which answers 500
GetCities(s) ==
  /\ IF readDataThrows(data)
     THEN Reply("getCities", s, EmptyObject, 500, "Internal Server Error")
     ELSE Reply("getCities", s, EmptyObject, 200, getUserCities(SessionUser(s)))
  /\ UNCHANGED <<users, data, session>>

\* mutant: one list shared by all users instead of one per username
PersistShared(file, username, cities) ==
  [k \in DOMAIN file \cup {username, LatestKey} |-> cities]

\* mutant: the write without data.latest = data[username]
PersistWithoutLatest(file, username, cities) == WithKey(file, username, cities)

\* data.latest = data[username]; writeData(data): the file as written
Persist(file, username, cities) ==
  WithKey(WithKey(file, username, cities), LatestKey, cities)

\* mutant: the city limit is not enforced by POST /cities
CityLimitReachedNever(idx, cities) == FALSE

\* mutant: > instead of >=
CityLimitReachedLate(idx, cities) == idx = 0 /\ Len(cities) > maxCitiesPerUser

\* idx === -1 && data[username].length >= maxCities
CityLimitReached(idx, cities) == idx = 0 /\ Len(cities) >= maxCitiesPerUser

\* mutant: > instead of >=
AttractionLimitReachedLate(list) == Len(list) > maxAttractionsPerCity

\* mutant: the attraction limit is not enforced by the add route
AttractionLimitReachedNever(list) == FALSE

\* city.attractions.length >= maxAttractions
AttractionLimitReached(list) == Len(list) >= maxAttractionsPerCity

\* mutant: > instead of >= in the restaurant route only
RestaurantLimitReachedLate(list) == Len(list) > maxRestaurantsPerCity

\* city.restaurants.length >= maxRestaurants
RestaurantLimitReached(list) == Len(list) >= maxRestaurantsPerCity

\* mutant: the lists are cut to their last items, as the read path does
CappedLast(city) ==
  WithField(
    WithField(city, "attractions",
              sliceFrom(ListOf(city, "attractions"), -maxAttractionsPerCity)),
    "restaurants",
    sliceFrom(ListOf(city, "restaurants"), -maxRestaurantsPerCity))

\* city.attractions = (city.attractions || []).slice(0, maxAttractions);
\* city.restaurants = (city.restaurants || []).slice(0, maxRestaurants)
Capped(city) ==
  WithField(
    WithField(city, "attractions",
              slice(ListOf(city, "attractions"), 0, maxAttractionsPerCity)),
    "restaurants",
    slice(ListOf(city, "restaurants"), 0, maxRestaurantsPerCity))

\* what a handler leaves behind: the status and body of its response and
\* the data file after it
Outcome(status, body, file) == [status |-> status, body |-> body, data |-> file]

\* POST /cities, run for the session's username on the file it reads
AddOrUpdateCity(file, username, city) ==
  LET mine   == IF username \in DOMAIN file THEN file[username] ELSE <<>>
      idx    == findIndex(mine, city.name)
      stored == Capped(city)
  IN
  IF username = <<>>
  THEN Outcome(401, "Login required", file)
  ELSE IF "name" \notin DOMAIN city \/ city.name = 0
  THEN Outcome(400, "City name required", file)
  ELSE IF readDataThrows(file)
  THEN Outcome(500, "Internal Server Error", file)
  ELSE IF CityLimitReached(idx, mine)
  THEN Outcome(400, "City limit (10) reached", file)
  ELSE Outcome(200, stored,
               Persist(file, username,
                       IF idx > 0 THEN [mine EXCEPT ![idx] = stored]
                                  ELSE push(mine, stored)))

\* POST /cities
PostCity(s, city) ==
  LET out == AddOrUpdateCity(data, SessionUser(s), city) IN
  /\ data' = out.data
  /\ Reply("postCity", s, city, out.status, out.body)
  /\ UNCHANGED <<users, session>>

\* mutant: a city that is not in the list is reported as not found
DeleteCityChecked(s, cityName) ==
  LET username == SessionUser(s)
      req      == [cityName |-> cityName]
  IN
  IF username = <<>>
  THEN /\ Reply("deleteCity", s, req, 401, "Login required")
       /\ UNCHANGED <<users, data, session>>
  ELSE IF readDataThrows(data)
  THEN /\ Reply("deleteCity", s, req, 500, "Internal Server Error")
       /\ UNCHANGED <<users, data, session>>
  ELSE IF username \notin DOMAIN data
  THEN /\ Reply("deleteCity", s, req, 404, "No cities found")
       /\ UNCHANGED <<users, data, session>>
  ELSE IF findIndex(data[username], cityName) = 0
  THEN /\ Reply("deleteCity", s, req, 404, "City not found")
       /\ UNCHANGED <<users, data, session>>
  ELSE /\ data' = Persist(data, username, WithoutCity(data[username], cityName))
       /\ Reply("deleteCity", s, req, 200, "City deleted")
       /\ UNCHANGED <<users, session>>

\* DELETE /cities/:cityName
DeleteCity(s, cityName) ==
  LET username == SessionUser(s)
      req      == [cityName |-> cityName]
  IN
  IF username = <<>>
  THEN /\ Reply("deleteCity", s, req, 401, "Login required")
       /\ UNCHANGED <<users, data, session>>
  ELSE IF readDataThrows(data)
  THEN /\ Reply("deleteCity", s, req, 500, "Internal Server Error")
       /\ UNCHANGED <<users, data, session>>
  ELSE IF username \notin DOMAIN data
  THEN /\ Reply("deleteCity", s, req, 404, "No cities found")
       /\ UNCHANGED <<users, data, session>>
  ELSE /\ data' = Persist(data, username, WithoutCity(data[username], cityName))
       /\ Reply("deleteCity", s, req, 200, "City deleted")
       /\ UNCHANGED <<users, session>>

\* mutant: an attraction that is already there ends the request before the
\* write
AddAttractionSkipsWrite(file, username, cityName, attraction) ==
  LET mine == IF username \in DOMAIN file THEN file[username] ELSE <<>>
      idx  == findIndex(mine, cityName)
      list == ListOf(mine[idx], "attractions")
      city == WithField(mine[idx], "attractions", push(list, attraction))
  IN
  IF username = <<>>
  THEN Outcome(401, "Login required", file)
  ELSE IF attraction = 0
  THEN Outcome(400, "Attraction required", file)
  ELSE IF readDataThrows(file)
  THEN Outcome(500, "Internal Server Error", file)
  ELSE IF idx = 0
  THEN Outcome(404, "City not found", file)
  ELSE IF AttractionLimitReached(list)
  THEN Outcome(400, "Attraction limit (5) reached", file)
  ELSE IF Includes(list, attraction)
  THEN Outcome(200, mine[idx], file)
  ELSE Outcome(200, city, Persist(file, username, [mine EXCEPT ![idx] = city]))

\* POST /cities/:cityName/attractions, run for the session's username on the
\* file it reads
AddAttraction(file, username, cityName, attraction) ==
  LET mine == IF username \in DOMAIN file THEN file[username] ELSE <<>>
      idx  == findIndex(mine, cityName)
      list == ListOf(mine[idx], "attractions")
      city == WithField(mine[idx], "attractions",
                        IF Includes(list, attraction) THEN list
                        ELSE push(list, attraction))
  IN
  IF username = <<>>
  THEN Outcome(401, "Login required", file)
  ELSE IF attraction = 0
  THEN Outcome(400, "Attraction required", file)
  ELSE IF readDataThrows(file)
  THEN Outcome(500, "Internal Server Error", file)
  ELSE IF idx = 0
  THEN Outcome(404, "City not found", file)
  ELSE IF AttractionLimitReached(list)
  THEN Outcome(400, "Attraction limit (5) reached", file)
  ELSE Outcome(200, city, Persist(file, username, [mine EXCEPT ![idx] = city]))

\* POST /cities/:cityName/attractions
PostAttraction(s, cityName, attraction) ==
  LET out == AddAttraction(data, SessionUser(s), cityName, attraction) IN
  /\ data' = out.data
  /\ Reply("postAttraction", s, [cityName |-> cityName, item |-> attraction],
           out.status, out.body)
  /\ UNCHANGED <<users, session>>

\* DELETE /cities/:cityName/attractions/:attraction, run for the session's
\* username on the file it reads
RemoveAttraction(file, username, cityName, attraction) ==
  LET mine == IF username \in DOMAIN file THEN file[username] ELSE <<>>
      idx  == findIndex(mine, cityName)
      city == WithField(mine[idx], "attractions",
                        Without(ListOf(mine[idx], "attractions"), attraction))
  IN
  IF username = <<>>
  THEN Outcome(401, "Login required", file)
  ELSE IF readDataThrows(file)
  THEN Outcome(500, "Internal Server Error", file)
  ELSE IF idx = 0
  THEN Outcome(404, "City not found", file)
  ELSE Outcome(200, city, Persist(file, username, [mine EXCEPT ![idx] = city]))

\* DELETE /cities/:cityName/attractions/:attraction
DeleteAttraction(s, cityName, attraction) ==
  LET out == RemoveAttraction(data, SessionUser(s), cityName, attraction) IN
  /\ data' = out.data
  /\ Reply("deleteAttraction", s, [cityName |-> cityName, item |-> attraction],
           out.status, out.body)
  /\ UNCHANGED <<users, session>>

\* POST /cities/:cityName/restaurants, run for the session's username on the
\* file it reads
AddRestaurant(file, username, cityName, restaurant) ==
  LET mine == IF username \in DOMAIN file THEN file[username] ELSE <<>>
      idx  == findIndex(mine, cityName)
      list == ListOf(mine[idx], "restaurants")
      city == WithField(mine[idx], "restaurants",
                        IF Includes(list, restaurant) THEN list
                        ELSE push(list, restaurant))
  IN
  IF username = <<>>
  THEN Outcome(401, "Login required", file)
  ELSE IF restaurant = 0
  THEN Outcome(400, "Restaurant required", file)
  ELSE IF readDataThrows(file)
  THEN Outcome(500, "Internal Server Error", file)
  ELSE IF idx = 0
  THEN Outcome(404, "City not found", file)
  ELSE IF RestaurantLimitReached(list)
  THEN Outcome(400, "Restaurant limit (5) reached", file)
  ELSE Outcome(200, city, Persist(file, username, [mine EXCEPT ![idx] = city]))

\* POST /cities/:cityName/restaurants
PostRestaurant(s, cityName, restaurant) ==
  LET out == AddRestaurant(data, SessionUser(s), cityName, restaurant) IN
  /\ data' = out.data
  /\ Reply("postRestaurant", s, [cityName |-> cityName, item |-> restaurant],
           out.status, out.body)
  /\ UNCHANGED <<users, session>>

\* DELETE /cities/:cityName/restaurants/:restaurant, run for the session's
\* username on the file it reads
RemoveRestaurant(file, username, cityName, restaurant) ==
  LET mine == IF username \in DOMAIN file THEN file[username] ELSE <<>>
      idx  == findIndex(mine, cityName)
      city == WithField(mine[idx], "restaurants",
                        Without(ListOf(mine[idx], "restaurants"), restaurant))
  IN
  IF username = <<>>
  THEN Outcome(401, "Login required", file)
  ELSE IF readDataThrows(file)
  THEN Outcome(500, "Internal Server Error", file)
  ELSE IF idx = 0
  THEN Outcome(404, "City not found", file)
  ELSE Outcome(200, city, Persist(file, username, [mine EXCEPT ![idx] = city]))

\* DELETE /cities/:cityName/restaurants/:restaurant
DeleteRestaurant(s, cityName, restaurant) ==
  LET out == RemoveRestaurant(data, SessionUser(s), cityName, restaurant) IN
  /\ data' = out.data
  /\ Reply("deleteRestaurant", s, [cityName |-> cityName, item |-> restaurant],
           out.status, out.body)
  /\ UNCHANGED <<users, session>>

----------------------------------------------------------------------------
(* The whole backend, started with no users file and no data file; two     *)
(* browser sessions send any request with inputs from small sets.          *)

\* config.files of loadConfig's default: data.json and users.json
DefaultPaths == [data |-> "data.json", users |-> "users.json"]

\* the names a cities file or a users file can be given
CitiesFileNames == {"data.json", "data2.json"}

UsersFileNames == {"users.json", "users2.json"}

\* no file but (at most) data.json and users.json exists: a missing cities
\* file reads as EmptyObject, a missing users file as no users
NoFiles ==
  [name \in CitiesFileNames \cup (UsersFileNames \ {"users.json"}) |->
     IF name \in CitiesFileNames THEN EmptyObject ELSE <<>>]

NoRequests == [id \in {} |-> <<>>]

NoResp == [op |-> "none", s |-> "s1", req |-> EmptyObject, status |-> 0, body |-> ""]

Init ==
  /\ users = <<>>
  /\ data = EmptyObject
  /\ session = [t \in {} |-> <<>>]
  /\ resp = NoResp
  /\ requests = NoRequests
  /\ config = DefaultPaths
  /\ files = NoFiles

\* request bodies of POST /users/register: both users, a missing username,
\* a missing password, a username that is no email
RegisterInputs ==
  { [username |-> U1, password |-> "p1"],
    [username |-> U2, password |-> "p1"],
    [username |-> <<>>, password |-> "p1"],
    [username |-> U1, password |-> ""],
    [username |-> <<"a", "@", "b">>, password |-> "p1"] }

\* request bodies of POST /users/login: both users, a wrong password, a
\* username that is no email
LoginInputs ==
  { [username |-> U1, password |-> "p1"],
    [username |-> U2, password |-> "p1"],
    [username |-> U1, password |-> "p2"],
    [username |-> <<"a", "@", "b">>, password |-> "p1"] }

\* request bodies of POST /cities in the whole-backend specification
SmallCityInputs ==
  { [name |-> 1],
    [attractions |-> <<1>>],
    [name |-> 1, attractions |-> <<1>>, restaurants |-> <<1>>] }

Next ==
  \/ \E s \in Sessions, body \in RegisterInputs :
       Register(s, body.username, body.password)
  \/ \E s \in Sessions, body \in LoginInputs :
       Login(s, body.username, body.password)
  \/ \E s \in Sessions : Logout(s)
  \/ \E s \in Sessions : Me(s)
  \/ \E s \in Sessions : GetCities(s)
  \/ \E s \in Sessions, city \in SmallCityInputs : PostCity(s, city)
  \/ \E s \in Sessions : DeleteCity(s, 1)
  \/ \E s \in Sessions, a \in 0..1 : PostAttraction(s, 1, a)
  \/ \E s \in Sessions : DeleteAttraction(s, 1, 1)
  \/ \E s \in Sessions, r \in 0..1 : PostRestaurant(s, 1, r)
  \/ \E s \in Sessions : DeleteRestaurant(s, 1, 1)

Spec == Init /\ [][Next]_vars

----------------------------------------------------------------------------
(* The city routes used by one logged-in client, from an empty data file.  *)

InitLoggedIn ==
  /\ users = <<[username |-> U1, password |-> "p1"]>>
  /\ data = EmptyObject
  /\ session = [t \in {"s1"} |-> U1]
  /\ resp = NoResp
  /\ requests = NoRequests
  /\ config = DefaultPaths
  /\ files = NoFiles

\* the cities of the logged-in user
MyCities == IF U1 \in DOMAIN data THEN data[U1] ELSE <<>>

MyNames == {MyCities[i].name : i \in 1..Len(MyCities)}

\* the attractions / restaurants of the logged-in user's first city
MyItems(field) ==
  IF Len(MyCities) = 0 THEN {}
  ELSE {MyCities[1][field][j] : j \in 1..Len(MyCities[1][field])}

\* the client numbers what it adds upwards (City0, City1, ... as in the tests):
\* a name is one already in use or one above all names in use
Upward(inUse, n) == n \in inUse \/ \A m \in inUse : m < n

EmptyCity(n) == [name |-> n, attractions |-> <<>>, restaurants |-> <<>>]

\* Up to the city limit: many cities, few attractions and restaurants
NextCities ==
  \/ \E n \in 1..NumCityNames :
       Upward(MyNames, n) /\ PostCity("s1", EmptyCity(n))
  \/ \E n \in 1..NumCityNames : DeleteCity("s1", n)
  \/ GetCities("s1")
  \/ PostAttraction("s1", 1, 1)
  \/ DeleteAttraction("s1", 1, 1)

SpecCities == InitLoggedIn /\ [][NextCities]_vars

\* request bodies of POST /cities that carry more items than the limits allow
FullCity == [name |-> 1,
             attractions |-> [j \in 1..NumItems |-> j],
             restaurants |-> [j \in 1..NumItems |-> j]]

\* Up to the attraction and restaurant limits: one city, many attractions;
\* restaurants are added one by one from the first or the last name only
NextItems ==
  \/ \E city \in {[name |-> 1], FullCity} : PostCity("s1", city)
  \/ DeleteCity("s1", 1)
  \/ GetCities("s1")
  \/ \E a \in 0..NumItems :
       Upward(MyItems("attractions"), a) /\ PostAttraction("s1", 1, a)
  \/ \E a \in 1..NumItems : DeleteAttraction("s1", 1, a)
  \/ \E r \in {0, 1, NumItems} :
       Upward(MyItems("restaurants"), r) /\ PostRestaurant("s1", 1, r)
  \/ DeleteRestaurant("s1", 1, 1)

SpecItems == InitLoggedIn /\ [][NextItems]_vars

\* a city whose caller-supplied lists name an item twice
DupCity == [name |-> 1, attractions |-> <<1, 1>>, restaurants |-> <<2, 2>>]

\* The same requests, and a POST /cities that carries DupCity
NextDups == NextItems \/ PostCity("s1", DupCity)

SpecDups == InitLoggedIn /\ [][NextDups]_vars

----------------------------------------------------------------------------
(* Reading a data file that was written directly (as the tests do, or under *)
(* larger limits): n cities City1..Cityn, each with k attractions and r     *)
(* restaurants, or with neither list.                                       *)

StoredCity(i, k, r) ==
  [name |-> i, attractions |-> [j \in 1..k |-> j], restaurants |-> [j \in 1..r |-> j]]

StoredFiles ==
  { [key \in {U1, LatestKey} |-> [i \in 1..n |-> StoredCity(i, k, r)]] :
      n \in 0..MaxStored, k \in 0..MaxStoredItems, r \in 0..MaxStoredItems }
  \cup
  { [key \in {U1, LatestKey} |-> [i \in 1..n |-> [name |-> i]]] : n \in 1..MaxStored }

InitStored ==
  /\ users = <<[username |-> U1, password |-> "p1"]>>
  /\ data \in StoredFiles
  /\ session = [t \in {"s1"} |-> U1]
  /\ resp = NoResp
  /\ requests = NoRequests
  /\ config = DefaultPaths
  /\ files = NoFiles

NextRead == \E s \in Sessions : GetCities(s)

SpecRead == InitStored /\ [][NextRead]_vars

\* The same, and a data file that is missing or cannot be read or parsed
InitUnreadable ==
  /\ users = <<[username |-> U1, password |-> "p1"]>>
  /\ data \in StoredFiles \cup {EmptyObject, Unreadable}
  /\ session = [t \in {"s1"} |-> U1]
  /\ resp = NoResp
  /\ requests = NoRequests
  /\ config = DefaultPaths
  /\ files = NoFiles

SpecUnreadable == InitUnreadable /\ [][NextRead]_vars

----------------------------------------------------------------------------
(* Requests of one user in flight at once.  A handler is taken in two      *)
(* steps: Begin is its readData(), Finish the rest (the checks on what it  *)
(* read, writeData and the response).  The data file starts one below each *)
(* limit: 9 cities, the first with 4 attractions and 4 restaurants.        *)

NearLimits ==
  [key \in {U1, LatestKey} |->
     [i \in 1..(maxCitiesPerUser - 1) |->
        IF i = 1 THEN StoredCity(1, maxAttractionsPerCity - 1,
                                 maxRestaurantsPerCity - 1)
        ELSE StoredCity(i, 0, 0)]]

InitNearLimits ==
  /\ users = <<[username |-> U1, password |-> "p1"]>>
  /\ data = NearLimits
  /\ session = [t \in {"s1"} |-> U1]
  /\ resp = NoResp
  /\ requests = NoRequests
  /\ config = DefaultPaths
  /\ files = NoFiles

\* a request the server has accepted and whose handler has not started
Queued(s, op, req) ==
  [s |-> s, op |-> op, req |-> req, pc |-> "queued", read |-> EmptyObject,
   status |-> 0]

\* mutant: the handlers yield between their read and their write, as with
\* asynchronous file I/O
HandlerRunningNever == FALSE

\* mutant: only the handler of the first request runs to its return without
\* another one starting
HandlerRunningFirst ==
  1 \in DOMAIN requests /\ requests[1].pc = "running"

\* A handler has started and not returned.  The handlers are synchronous
\* functions (fs.readFileSync, fs.writeFileSync, no await and no callback in
\* between), and Node runs a function to its return before it takes the next
\* event: no other handler starts meanwhile.
HandlerRunning == \E id \in DOMAIN requests : requests[id].pc = "running"

\* the server accepts a request
Arrive(s, op, req) ==
  /\ Cardinality(DOMAIN requests) < MaxRequests
  /\ requests' = WithKey(requests, Cardinality(DOMAIN requests) + 1,
                         Queued(s, op, req))
  /\ UNCHANGED <<users, data, session, resp, config, files>>

\* the handler of request id starts: const data = readData()
Begin(id) ==
  /\ id \in DOMAIN requests
  /\ requests[id].pc = "queued"
  /\ ~HandlerRunning
  /\ requests' = [requests EXCEPT ![id].pc = "running", ![id].read = data]
  /\ UNCHANGED <<users, data, session, resp, config, files>>

\* the handler of request r on the file it read
Handle(r) ==
  CASE r.op = "postCity" ->
         AddOrUpdateCity(r.read, SessionUser(r.s), r.req)
    [] r.op = "postAttraction" ->
         AddAttraction(r.read, SessionUser(r.s), r.req.cityName, r.req.item)
    [] r.op = "postRestaurant" ->
         AddRestaurant(r.read, SessionUser(r.s), r.req.cityName, r.req.item)

\* the handler of request id runs to its return: writeData(data) on the
\* path that answers 200, no write on the others
Finish(id) ==
  /\ id \in DOMAIN requests
  /\ requests[id].pc = "running"
  /\ LET r   == requests[id]
         out == Handle(r)
     IN  /\ data' = IF out.status = 200 THEN out.data ELSE data
         /\ resp' = Response(r.op, r.s, r.req, out.status, out.body)
         /\ requests' = [requests EXCEPT ![id].pc = "done",
                                         ![id].status = out.status]
  /\ UNCHANGED <<users, session, config, files>>

\* what the clients send: cities, attractions and restaurants that are not
\* stored yet, more of each than the limits leave room for
ConcurrentRequests ==
  { [op |-> "postCity", req |-> EmptyCity(n)] :
      n \in maxCitiesPerUser..NumCityNames }
  \cup
  { [op |-> op, req |-> [cityName |-> 1, item |-> j]] :
      op \in {"postAttraction", "postRestaurant"},
      j \in maxAttractionsPerCity..NumItems }

NextConcurrent ==
  \/ \E c \in ConcurrentRequests : Arrive("s1", c.op, c.req)
  \/ \E id \in 1..MaxRequests : Begin(id)
  \/ \E id \in 1..MaxRequests : Finish(id)

SpecConcurrent == InitNearLimits /\ [][NextConcurrent]_vars

----------------------------------------------------------------------------
(* The user routes alone, from an empty users file: two sessions, two      *)
(* email-shaped usernames, a missing username, a username that is no       *)
(* email, two passwords and a missing password.                            *)

AuthUsernames == {U1, U2, <<>>, <<"a", "@", "b">>}

AuthPasswords == {"p1", "p2", ""}

NextAuth ==
  \/ \E s \in Sessions, u \in AuthUsernames, p \in AuthPasswords : Register(s, u, p)
  \/ \E s \in Sessions, u \in AuthUsernames, p \in AuthPasswords : Login(s, u, p)
  \/ \E s \in Sessions : Logout(s)
  \/ \E s \in Sessions : Me(s)

SpecAuth == Init /\ [][NextAuth]_vars

----------------------------------------------------------------------------
(* One register or login request with an arbitrary username: every string  *)
(* of at most MaxNameLen characters over a letter, "@", "." and a blank.   *)
(* The request waits in resp until its handler runs; the users file is     *)
(* empty or holds U1, who may be logged in on the session of the request.  *)

NameAlphabet == {"a", "@", ".", " "}

NameInputs == UNION { [1..n -> NameAlphabet] : n \in 0..MaxNameLen }

Pending(username, password) ==
  [op |-> "pending", s |-> "s1",
   req |-> [username |-> username, password |-> password], status |-> 0,
   body |-> ""]

InitEmail ==
  /\ data = EmptyObject
  /\ \/ users = <<>> /\ session = [t \in {} |-> <<>>]
     \/ users = <<[username |-> U1, password |-> "p1"]>>
          /\ session \in {[t \in {} |-> <<>>], [t \in {"s1"} |-> U1]}
  /\ \E username \in NameInputs, password \in {"p1", ""} :
       resp = Pending(username, password)
  /\ requests = NoRequests
  /\ config = DefaultPaths
  /\ files = NoFiles

RegisterPending ==
  /\ resp.op = "pending"
  /\ Register(resp.s, resp.req.username, resp.req.password)

LoginPending ==
  /\ resp.op = "pending"
  /\ Login(resp.s, resp.req.username, resp.req.password)

NextEmail == RegisterPending \/ LoginPending

SpecEmail == InitEmail /\ [][NextEmail]_vars

----------------------------------------------------------------------------
(* The configuration: config.updateConfig({ files: newFiles }) names the   *)
(* cities file and the users file.  readData and writeData of city.js ask  *)
(* config.getCitiesFilePath() on every call, so data becomes the file of   *)
(* the new name and the file of the old name is kept in files.  readUsers  *)
(* and writeUsers of user.js use the constant USERS_FILE: users stays what *)
(* the user routes read and write whatever the configuration says.         *)

\* config.updateConfig({ files: newFiles }); it is no request, resp keeps
\* what it logs
updateConfig(newFiles) ==
  LET citiesFile == IF "cities" \in DOMAIN newFiles THEN newFiles.cities
                    ELSE config.data
      usersFile  == IF "users" \in DOMAIN newFiles THEN newFiles.users
                    ELSE config.users
  IN  /\ config' = [data |-> citiesFile, users |-> usersFile]
      /\ IF citiesFile = config.data
         THEN UNCHANGED <<data, files>>
         ELSE /\ data' = files[citiesFile]
              /\ files' = [files EXCEPT ![config.data] = data,
                                        ![citiesFile] = EmptyObject]
      /\ resp' = Response("updateConfig", "s1", newFiles, 0,
                          "Configuration updated successfully")
      /\ UNCHANGED <<users, session, requests>>

\* config.getUsersFilePath(): the content of the users file of the
\* configuration cfg, usr being USERS_FILE and other the other files
ConfiguredUsers(cfg, usr, other) ==
  IF cfg.users = "users.json" THEN usr ELSE other[cfg.users]

\* the content of the cities file of that name, dat being the file at
\* config.getCitiesFilePath() under cfg and other the other files
CitiesFile(name, cfg, dat, other) == IF name = cfg.data THEN dat ELSE other[name]

NewFiles ==
  { [cities |-> name] : name \in CitiesFileNames }
  \cup { [users |-> name] : name \in UsersFileNames }

NextConfig ==
  \/ \E newFiles \in NewFiles : updateConfig(newFiles)
  \/ Register("s1", U1, "p1")
  \/ Login("s1", U1, "p1")
  \/ Logout("s1")
  \/ \E n \in 1..2 : PostCity("s1", [name |-> n])
  \/ GetCities("s1")

SpecConfig == Init /\ [][NextConfig]_vars

----------------------------------------------------------------------------
(* The frontend (App.jsx): the handlers behind the city list's buttons.    *)
(* Each sends one request and then refreshes the displayed list with       *)
(* GET /cities; resp holds the request's status and the refreshed list.    *)

\* handleAddCity: prompt('City name?'), POST /cities with an empty city,
\* refreshCities when the answer is ok
handleAddCity(s, name) ==
  LET city == EmptyCity(name)
      out  == AddOrUpdateCity(data, SessionUser(s), city)
  IN  /\ name # 0
      /\ data' = out.data
      /\ Reply("handleAddCity", s, city, out.status,
               IF out.status = 200 THEN CitiesIn(out.data, SessionUser(s))
                                   ELSE out.body)
      /\ UNCHANGED <<users, session>>

\* handleUpdateCity(city): prompt('New city name?', city.name),
\* POST /cities with { ...city, name }, then refreshCities
handleUpdateCity(s, city, name) ==
  LET out == AddOrUpdateCity(data, SessionUser(s), [city EXCEPT !.name = name])
  IN  /\ name # 0
      /\ data' = out.data
      /\ Reply("handleUpdateCity", s, [city |-> city, name |-> name],
               out.status, CitiesIn(out.data, SessionUser(s)))
      /\ UNCHANGED <<users, session>>

\* the list the page displays: the logged-in user's cities as GET /cities
\* returns them
Displayed == getUserCities(U1)

NextFrontend ==
  \/ \E name \in 1..NumEditNames : handleAddCity("s1", name)
  \/ \E i \in 1..Len(Displayed) : \E name \in 1..NumEditNames :
       handleUpdateCity("s1", Displayed[i], name)
  \/ \E n \in 1..NumEditNames : PostAttraction("s1", n, 1)
  \/ \E n \in 1..NumEditNames : DeleteCity("s1", n)

SpecFrontend == InitLoggedIn /\ [][NextFrontend]_vars

----------------------------------------------------------------------------
(* Two logged-in clients that change the same city name in their own lists *)
(* while a guest looks at `latest`.                                        *)

InitTwoLoggedIn ==
  /\ users = <<[username |-> U1, password |-> "p1"],
               [username |-> U2, password |-> "p1"]>>
  /\ data = EmptyObject
  /\ session = [t \in Sessions |-> IF t = "s1" THEN U1 ELSE U2]
  /\ resp = NoResp
  /\ requests = NoRequests
  /\ config = DefaultPaths
  /\ files = NoFiles

NextGuest ==
  \/ \E s \in Sessions : PostCity(s, [name |-> 1])
  \/ \E s \in Sessions : DeleteCity(s, 1)
  \/ \E s \in Sessions, a \in 1..2 : PostAttraction(s, 1, a)
  \/ \E s \in Sessions, a \in 1..2 : DeleteAttraction(s, 1, a)
  \/ \E s \in Sessions : PostRestaurant(s, 1, 1)
  \/ \E s \in Sessions : DeleteRestaurant(s, 1, 1)
  \/ GetCities("s3")

SpecGuest == InitTwoLoggedIn /\ [][NextGuest]_vars

----------------------------------------------------------------------------
(* One logged-in client at all three limits at once: its list is one city  *)
(* short of the city limit and its first city one attraction and one       *)
(* restaurant short of theirs.                                             *)

\* a request body of POST /cities that carries more attractions and
\* restaurants than the limits allow
OverfullCity(n) ==
  [name |-> n,
   attractions |-> [j \in 1..NumItems |-> j],
   restaurants |-> [j \in 1..NumItems |-> j]]

NextLimits ==
  \/ \E n \in maxCitiesPerUser..NumCityNames : PostCity("s1", EmptyCity(n))
  \/ PostCity("s1", OverfullCity(maxCitiesPerUser - 1))
  \/ \E n \in (maxCitiesPerUser - 1)..maxCitiesPerUser : DeleteCity("s1", n)
  \/ \E j \in maxAttractionsPerCity..NumItems : PostAttraction("s1", 1, j)
  \/ DeleteAttraction("s1", 1, maxAttractionsPerCity)
  \/ \E j \in maxRestaurantsPerCity..NumItems : PostRestaurant("s1", 1, j)
  \/ DeleteRestaurant("s1", 1, maxRestaurantsPerCity)
  \/ GetCities("s1")

SpecLimits == InitNearLimits /\ [][NextLimits]_vars

----------------------------------------------------------------------------
(* Properties *)

Usernames == {U1, U2}

\* the requests that write the data file when they succeed
MutatingOps == {"postCity", "deleteCity", "postAttraction", "deleteAttraction",
                "postRestaurant", "deleteRestaurant"}

\* a user's stored list, empty when the user has no entry
ListOfUser(u) == IF u \in DOMAIN data THEN data[u] ELSE <<>>

NamesOf(cities) == [i \in 1..Len(cities) |-> cities[i].name]

\* the last min(Len(list), n) elements of list, in order
LastOf(list, n) ==
  LET m == IF Len(list) < n THEN Len(list) ELSE n
  IN  [j \in 1..m |-> list[Len(list) - m + j]]

\* C1: from an empty data file, after any sequence of city and attraction
\* requests, every stored city list has at most 10 entries.
C1_CityListsBounded == \A k \in DOMAIN data : Len(data[k]) <= 10

\* the list is full and the last request was refused for that reason
C1_Witness ==
  /\ resp.op = "postCity"
  /\ resp.status = 400
  /\ resp.body = "City limit (10) reached"
  /\ Len(ListOfUser(U1)) = 10

\* C2: from an empty data file, after any sequence of requests, every stored
\* city has at most 5 attractions and at most 5 restaurants.
C2_ItemListsBounded ==
  \A k \in DOMAIN data : \A i \in 1..Len(data[k]) :
    /\ Len(data[k][i].attractions) <= 5
    /\ Len(data[k][i].restaurants) <= 5

\* both lists of the city are full and one more attraction was refused
C2_Witness ==
  /\ resp.op = "postAttraction"
  /\ resp.status = 400
  /\ resp.body = "Attraction limit (5) reached"
  /\ Len(ListOfUser(U1)) = 1
  /\ Len(ListOfUser(U1)[1].attractions) = 5
  /\ Len(ListOfUser(U1)[1].restaurants) = 5

\* C3: POST /cities by a logged-in user with a name not in the user's list:
\* with N < 10 stored cities it answers 200 and the stored list is the old
\* list followed by the new city; with 10 stored cities it answers 400
\* (city limit) and the data file is unchanged.
C3_Step ==
  LET u    == SessionUser(resp'.s)
      mine == ListOfUser(u)
      city == resp'.req
  IN  ( /\ resp'.op = "postCity"
        /\ u # <<>>
        /\ "name" \in DOMAIN city
        /\ city.name # 0
        /\ \A i \in 1..Len(mine) : mine[i].name # city.name )
      => IF Len(mine) < 10
         THEN /\ resp'.status = 200
              /\ u \in DOMAIN data'
              /\ Len(data'[u]) = Len(mine) + 1
              /\ SubSeq(data'[u], 1, Len(mine)) = mine
              /\ data'[u][Len(mine) + 1].name = city.name
         ELSE /\ resp'.status = 400
              /\ resp'.body = "City limit (10) reached"
              /\ data' = data

C3_AddCity == [][C3_Step]_vars

\* the tenth city was just added at the end of a list that held other cities
C3_Witness ==
  /\ resp.op = "postCity"
  /\ resp.status = 200
  /\ Len(ListOfUser(U1)) = 10
  /\ ListOfUser(U1)[10].name = resp.req.name
  /\ \A i \in 1..9 : ListOfUser(U1)[i].name # resp.req.name

\* C4: GET /cities for a user whose stored list has n cities returns the
\* last min(n, 10) of them in stored order.
C4_ListLastCities ==
  (resp.op = "getCities" /\ SessionUser(resp.s) \in DOMAIN data)
  => NamesOf(resp.body) = LastOf(NamesOf(data[SessionUser(resp.s)]), 10)

\* 15 stored cities City1..City15 are listed as City6..City15
C4_Witness ==
  /\ resp.op = "getCities"
  /\ SessionUser(resp.s) = U1
  /\ Len(data[U1]) = 15
  /\ NamesOf(resp.body) = <<6, 7, 8, 9, 10, 11, 12, 13, 14, 15>>

\* C5: every city returned by GET /cities carries the last min(k, 5) stored
\* attractions and the last min(k, 5) stored restaurants, in stored order.
C5_ListLastItems ==
  resp.op = "getCities"
  => LET stored == LastOf(IF SessionUser(resp.s) \in DOMAIN data
                          THEN data[SessionUser(resp.s)]
                          ELSE ListOfUser(LatestKey), 10)
     IN  /\ Len(resp.body) = Len(stored)
         /\ \A i \in 1..Len(stored) :
              /\ resp.body[i].attractions = LastOf(ListOf(stored[i], "attractions"), 5)
              /\ resp.body[i].restaurants = LastOf(ListOf(stored[i], "restaurants"), 5)

\* 7 stored attractions 1..7 are shown as 3..7, 6 stored restaurants as 2..6
C5_Witness ==
  /\ resp.op = "getCities"
  /\ Len(resp.body) > 0
  /\ Len(ListOf(data[U1][1], "attractions")) = 7
  /\ Len(ListOf(data[U1][1], "restaurants")) = 6
  /\ resp.body[1].attractions = <<3, 4, 5, 6, 7>>
  /\ resp.body[1].restaurants = <<2, 3, 4, 5, 6>>

\* C6: GET /cities in the session of a logged-in user returns that user's
\* own cities only (nothing when the user has stored none).
C6_OwnCitiesOnly ==
  (resp.op = "getCities" /\ SessionUser(resp.s) # <<>>)
  => NamesOf(resp.body) = NamesOf(ListOfUser(SessionUser(resp.s)))

\* C7: a request in the session of user u never changes the stored list of
\* another user: a user's list changes only by a successful mutating
\* request made in a session of that user.
C7_Step ==
  \A v \in Usernames :
    ( \/ (v \in DOMAIN data' /\ (v \notin DOMAIN data \/ data'[v] # data[v]))
      \/ (v \in DOMAIN data /\ v \notin DOMAIN data') )
    => /\ resp'.op \in MutatingOps
       /\ resp'.status = 200
       /\ SessionUser(resp'.s) = v

C7_OtherUsersUntouched == [][C7_Step]_vars

\* both users have stored different lists and one of them just changed its own
C7_Witness ==
  /\ U1 \in DOMAIN data
  /\ U2 \in DOMAIN data
  /\ data[U1] # data[U2]
  /\ Len(data[U1]) > 0
  /\ resp.op = "deleteCity"
  /\ resp.status = 200
  /\ SessionUser(resp.s) = U2

\* C8: after every successful mutating request by user u, `latest` equals
\* u's full stored list and is what a guest is shown; no other request
\* changes `latest`.
C8_Step ==
  IF resp'.op \in MutatingOps /\ resp'.status = 200
  THEN /\ LatestKey \in DOMAIN data'
       /\ SessionUser(resp'.s) \in DOMAIN data'
       /\ data'[LatestKey] = data'[SessionUser(resp'.s)]
       /\ CitiesIn(data', <<>>) = data'[SessionUser(resp'.s)]
  ELSE data' = data

C8_LatestFollowsMutation == [][C8_Step]_vars

\* the second user just added an attraction: `latest` is that user's list
\* and differs from the first user's
C8_Witness ==
  /\ resp.op = "postAttraction"
  /\ resp.status = 200
  /\ SessionUser(resp.s) = U2
  /\ U1 \in DOMAIN data
  /\ data[LatestKey] = data[U2]
  /\ data[LatestKey] # data[U1]

\* C9: every mutating city request on a session that carries no username
\* answers 401 and leaves the data file unchanged.
C9_Step ==
  (resp'.op \in MutatingOps /\ resp'.s \notin DOMAIN session)
  => /\ resp'.status = 401
     /\ resp'.body = "Login required"
     /\ data' = data

C9_LoginRequired == [][C9_Step]_vars

\* a request naming an existing city of an existing user was refused
C9_Witness ==
  /\ resp.op = "deleteAttraction"
  /\ resp.status = 401
  /\ resp.s \notin DOMAIN session
  /\ Len(ListOfUser(U1)) > 0
  /\ ListOfUser(U1)[1].name = resp.req.cityName

\* C10: logout clears the session's user; a session without a user gets one
\* only by a successful register or login on that session, and until then
\* GET /users/me and every mutating city request on it answer 401; after a
\* successful register or login GET /users/me answers the username that was
\* registered or logged in, until the next logout, register or login on
\* that session.
C10_Step ==
  /\ resp'.op = "logout" => resp'.s \notin DOMAIN session'
  /\ \A s \in Sessions :
       (s \in DOMAIN session' /\ (s \notin DOMAIN session \/ session'[s] # session[s]))
       => /\ resp'.op \in {"register", "login"}
          /\ resp'.s = s
          /\ resp'.status = 200
          /\ session'[s] = resp'.req.username
  /\ (resp'.op \in {"register", "login"} /\ resp'.status = 200)
       => (resp'.s \in DOMAIN session' /\ session'[resp'.s] = resp'.req.username)
  /\ (resp'.op \in MutatingOps \cup {"me"} /\ resp'.s \notin DOMAIN session)
       => resp'.status = 401
  /\ (resp'.op = "me" /\ resp'.s \in DOMAIN session)
       => (resp'.status = 200 /\ resp'.body = session[resp'.s])

C10_SessionLifecycle == [][C10_Step]_vars

\* every session is logged out again although a user had stored a city, and
\* GET /users/me is refused
C10_Witness ==
  /\ resp.op = "me"
  /\ resp.status = 401
  /\ DOMAIN session = {}
  /\ Len(ListOfUser(U1)) > 0

\* no two records of the user store share a username
UniqueUsernames(store) ==
  \A i, j \in 1..Len(store) : store[i].username = store[j].username => i = j

\* the store held a record with the username of the register request
RegistersTakenName ==
  /\ resp'.op = "register"
  /\ \E i \in 1..Len(users) : users[i].username = resp'.req.username

\* C11 as stated: a register call whose username is already in the user
\* store answers 409 and leaves the store unchanged, and no two records
\* share a username.
C11_StepAsStated ==
  /\ RegistersTakenName => (resp'.status = 409 /\ users' = users)
  /\ UniqueUsernames(users')

C11_ConflictAlways == [][C11_StepAsStated]_vars

\* C11 amended: a register call whose username is already in the user store
\* fails and leaves the store unchanged: with 409 when it carries a
\* password, with 400 when the password is missing (that check comes
\* first); no two records share a username.
C11_Step ==
  /\ RegistersTakenName
       => /\ resp'.status = IF resp'.req.password = "" THEN 400 ELSE 409
          /\ users' = users
  /\ UniqueUsernames(users')

C11_ConflictOnTakenName == [][C11_Step]_vars

\* a second registration of a stored username, with another password, was
\* refused with 409
C11_Witness ==
  /\ resp.op = "register"
  /\ resp.status = 409
  /\ \E i \in 1..Len(users) :
       /\ users[i].username = resp.req.username
       /\ users[i].password # resp.req.password

\* every character of part is neither "@" nor whitespace, and there is one
PlainPart(part) ==
  /\ Len(part) > 0
  /\ \A i \in 1..Len(part) : part[i] # "@" /\ part[i] \notin Whitespace

\* the email pattern: local@domain.tld, three parts free of "@" and blanks
MatchesEmailPattern(name) ==
  \E i, j \in 1..Len(name) :
    /\ i < j
    /\ name[i] = "@"
    /\ name[j] = "."
    /\ PlainPart(SubSeq(name, 1, i - 1))
    /\ PlainPart(SubSeq(name, i + 1, j - 1))
    /\ PlainPart(SubSeq(name, j + 1, Len(name)))

\* C12: register and login with a username that fails the email pattern
\* answer 400 whatever the password is, and leave the user store and the
\* session unchanged.
C12_Step ==
  (resp'.op \in {"register", "login"} /\ ~MatchesEmailPattern(resp'.req.username))
    => (resp'.status = 400 /\ users' = users /\ session' = session)

C12_BadEmailRejected == [][C12_Step]_vars

\* a login with a password, on a session that is logged in, was refused
\* for a username that has its "@" and its "." but fails the pattern
C12_Witness ==
  /\ resp.op = "login"
  /\ resp.status = 400
  /\ resp.req.password # ""
  /\ "s1" \in DOMAIN session
  /\ \E i, j \in 1..Len(resp.req.username) :
       i < j /\ resp.req.username[i] = "@" /\ resp.req.username[j] = "."
  /\ ~MatchesEmailPattern(resp.req.username)

\* C13: login with an email-shaped username answers 200 and sets the
\* session's user to that username exactly when the user store holds a
\* record with that username and that password; otherwise it answers 401
\* and leaves the user store and the session, logged in or not, unchanged.
C13_Step ==
  (resp'.op = "login" /\ MatchesEmailPattern(resp'.req.username))
    => /\ users' = users
       /\ IF \E i \in 1..Len(users) : users[i] = resp'.req
          THEN /\ resp'.status = 200
               /\ resp'.s \in DOMAIN session'
               /\ session'[resp'.s] = resp'.req.username
               /\ \A t \in Sessions \ {resp'.s} :
                    /\ t \in DOMAIN session' <=> t \in DOMAIN session
                    /\ t \in DOMAIN session => session'[t] = session[t]
          ELSE /\ resp'.status = 401
               /\ session' = session

C13_LoginExactMatch == [][C13_Step]_vars

\* a login with a stored username and a wrong password was refused on a
\* session where another user is logged in
C13_Witness ==
  /\ resp.op = "login"
  /\ resp.status = 401
  /\ resp.req.password # ""
  /\ \E i \in 1..Len(users) : users[i].username = resp.req.username
  /\ resp.s \in DOMAIN session
  /\ session[resp.s] # resp.req.username

\* C14: the user store is append-only. No request modifies or removes a
\* record of the store, a successful register leaves its username and
\* password in the store, and a login with a stored username and password
\* succeeds; so a pair that registered successfully can log in ever after.
C14_Step ==
  /\ Len(users) <= Len(users')
  /\ \A i \in 1..Len(users) : users'[i] = users[i]
  /\ (resp'.op = "register" /\ resp'.status = 200)
       => \E i \in 1..Len(users') : users'[i] = resp'.req
  /\ (resp'.op = "login" /\ \E i \in 1..Len(users) : users[i] = resp'.req)
       => resp'.status = 200

C14_UsersAppendOnly == [][C14_Step]_vars

\* the first of two registered users logged in after the second one
\* registered and after cities were stored
C14_Witness ==
  /\ Len(users) = 2
  /\ resp.op = "login"
  /\ resp.status = 200
  /\ resp.req = users[1]
  /\ DOMAIN data # {}

\* a deleteCity request of a logged-in user has just been answered
DeletesCity == resp'.op = "deleteCity" /\ resp'.s \in DOMAIN session

\* the list of the user of the request holds a city of the requested name
CityNamed(file) ==
  \E i \in 1..Len(file[session[resp'.s]]) :
    file[session[resp'.s]][i].name = resp'.req.cityName

\* C15: deleteCity by a logged-in user answers 404 exactly when the user
\* has no list at all. With a list it answers 200; when the named city is
\* not in the list the list stays as it is, and in any case the list holds
\* no city of that name afterwards, so a second delete changes nothing.
C15_Step ==
  DeletesCity
    => /\ resp'.status = 404 <=> session[resp'.s] \notin DOMAIN data
       /\ session[resp'.s] \in DOMAIN data
            => /\ resp'.status = 200
               /\ session[resp'.s] \in DOMAIN data'
               /\ ~CityNamed(data)
                    => data'[session[resp'.s]] = data[session[resp'.s]]
               /\ ~CityNamed(data')

C16_Step ==
  (DeletesCity /\ (session[resp'.s] \notin DOMAIN data \/ ~CityNamed(data)))
    => resp'.status >= 400

C16_DeleteMissingCityFails == [][C16_Step]_vars

\* a postAttraction request of a logged-in user that names an attraction
\* and a city of the user's list has just been answered
AddsAttraction ==
  /\ resp'.op = "postAttraction"
  /\ resp'.s \in DOMAIN session
  /\ resp'.req.item # 0
  /\ session[resp'.s] \in DOMAIN data
  /\ findIndex(data[session[resp'.s]], resp'.req.cityName) > 0

\* the attractions the city of the request holds in file
AttractionsIn(file) ==
  file[session[resp'.s]][findIndex(file[session[resp'.s]],
                                   resp'.req.cityName)].attractions

\* C17: addAttraction on a city that holds 5 attractions answers 400
\* "Attraction limit (5) reached" and leaves the whole data file, the
\* city's attractions and `latest` included, unchanged.
C17_Step ==
  (AddsAttraction /\ Len(AttractionsIn(data)) = 5)
    => /\ resp'.status = 400
       /\ resp'.body = "Attraction limit (5) reached"
       /\ data' = data

C17_SixthAttractionRefused == [][C17_Step]_vars

\* a sixth attraction, one the city does not hold, was refused
C17_Witness ==
  /\ resp.op = "postAttraction"
  /\ resp.status = 400
  /\ resp.body = "Attraction limit (5) reached"
  /\ Len(MyCities) = 1
  /\ Len(MyCities[1].attractions) = 5
  /\ resp.req.item \notin MyItems("attractions")

\* C18: addAttraction on a city that holds fewer than 5 attractions answers
\* 200; it appends the attraction at the end when the list does not hold
\* it and leaves the list unchanged when it does. On a city that holds 5
\* attractions an attraction of the list is refused with 400 "Attraction
\* limit (5) reached" like any other.
C18_Step ==
  AddsAttraction
    => IF Len(AttractionsIn(data)) < 5
       THEN /\ resp'.status = 200
            /\ AttractionsIn(data') =
                 IF \E i \in 1..Len(AttractionsIn(data)) :
                      AttractionsIn(data)[i] = resp'.req.item
                 THEN AttractionsIn(data)
                 ELSE AttractionsIn(data) \o <<resp'.req.item>>
       ELSE (\E i \in 1..Len(AttractionsIn(data)) :
               AttractionsIn(data)[i] = resp'.req.item)
              => /\ resp'.status = 400
                 /\ resp'.body = "Attraction limit (5) reached"

C18_AppendUnlessPresent == [][C18_Step]_vars

\* an attraction that the full list of the city holds was refused
C18_Witness ==
  /\ resp.op = "postAttraction"
  /\ resp.status = 400
  /\ resp.body = "Attraction limit (5) reached"
  /\ Len(MyCities) = 1
  /\ Len(MyCities[1].attractions) = 5
  /\ resp.req.item \in MyItems("attractions")

\* no item is at two places of list
NoDuplicates(list) ==
  \A i, j \in 1..Len(list) : list[i] = list[j] => i = j

\* C19 as documented: from an empty data file, after any sequence of
\* requests, POST /cities with a caller-supplied list included, no stored
\* attractions list and no stored restaurants list holds an item twice.
C19_NoStoredDuplicates ==
  \A k \in DOMAIN data : \A i \in 1..Len(data[k]) :
    /\ NoDuplicates(data[k][i].attractions)
    /\ NoDuplicates(data[k][i].restaurants)

\* the first 5 items of the list the request carries for field, if any
Given(field) ==
  IF field \in DOMAIN resp'.req
  THEN SubSeq(resp'.req[field], 1, Min(5, Len(resp'.req[field])))
  ELSE <<>>

\* C20: POST /cities by a logged-in user with a name that is in the user's
\* list answers 200, also when the list holds 10 cities; the list keeps its
\* length, the entry of that name is replaced where it stands by the city
\* of the request, and every other entry is unchanged.
C20_Step ==
  LET u    == SessionUser(resp'.s)
      mine == ListOfUser(u)
      city == resp'.req
  IN  ( /\ resp'.op = "postCity"
        /\ u # <<>>
        /\ "name" \in DOMAIN city
        /\ city.name # 0
        /\ \E i \in 1..Len(mine) : mine[i].name = city.name )
      => /\ resp'.status = 200
         /\ u \in DOMAIN data'
         /\ Len(data'[u]) = Len(mine)
         /\ \A i \in 1..Len(mine) :
              IF mine[i].name = city.name
              THEN data'[u][i] = [name |-> city.name,
                                  attractions |-> Given("attractions"),
                                  restaurants |-> Given("restaurants")]
              ELSE data'[u][i] = mine[i]

C20_UpdateInPlace == [][C20_Step]_vars

\* the first city of a list of 10 was posted again: the names of a list
\* differ, so the request did not append it
C20_Witness ==
  /\ resp.op = "postCity"
  /\ resp.status = 200
  /\ Len(MyCities) = 10
  /\ MyCities[1].name = resp.req.name
  /\ \A i \in 2..10 : MyCities[i].name # resp.req.name

\* the first Min(k, 5) items of a list of k items
FirstFive(list) == [j \in 1..Min(Len(list), 5) |-> list[j]]

\* C21: a POST /cities that answers 200 stores, under the name of the
\* request, the first min(k, 5) items of the request's attractions and of
\* its restaurants (nothing for a list the request lacks), and the city of
\* the response is the stored city.
C21_Step ==
  LET u    == SessionUser(resp'.s)
      city == resp'.req
  IN  (resp'.op = "postCity" /\ resp'.status = 200)
      => /\ u \in DOMAIN data'
         /\ \E i \in 1..Len(data'[u]) :
              /\ data'[u][i].name = city.name
              /\ data'[u][i].attractions =
                   IF "attractions" \in DOMAIN city
                   THEN FirstFive(city.attractions) ELSE <<>>
              /\ data'[u][i].restaurants =
                   IF "restaurants" \in DOMAIN city
                   THEN FirstFive(city.restaurants) ELSE <<>>
              /\ resp'.body = data'[u][i]

C21_StoresFirstFive == [][C21_Step]_vars

\* a city posted with more than 5 attractions was stored with 5
C21_Witness ==
  /\ resp.op = "postCity"
  /\ resp.status = 200
  /\ "attractions" \in DOMAIN resp.req
  /\ Len(resp.req.attractions) > 5
  /\ Len(MyCities) = 1
  /\ Len(MyCities[1].attractions) = 5
  /\ MyCities[1].attractions[5] = resp.req.attractions[5]

\* the city with its attractions and its restaurants exchanged
ExchangedCity(city) ==
  [name |-> city.name, attractions |-> city.restaurants,
   restaurants |-> city.attractions]

\* the data file in which every city's two lists are exchanged
Exchanged(file) ==
  [k \in DOMAIN file |-> [i \in 1..Len(file[k]) |-> ExchangedCity(file[k][i])]]

\* C22: a restaurant request answers with the status, and leaves the data
\* file, that the attraction request of the same user, city and item gives
\* on the data file with every city's two lists exchanged (the resulting
\* files agree once the lists are exchanged back).
C22_Step ==
  LET u   == SessionUser(resp'.s)
      req == resp'.req
  IN  /\ resp'.op = "postRestaurant"
           => /\ resp'.status =
                   AddAttraction(Exchanged(data), u, req.cityName, req.item).status
              /\ Exchanged(data') =
                   AddAttraction(Exchanged(data), u, req.cityName, req.item).data
      /\ resp'.op = "deleteRestaurant"
           => /\ resp'.status =
                   RemoveAttraction(Exchanged(data), u, req.cityName, req.item).status
              /\ Exchanged(data') =
                   RemoveAttraction(Exchanged(data), u, req.cityName, req.item).data

C22_RestaurantsMirrorAttractions == [][C22_Step]_vars

\* a sixth restaurant was refused for a city that holds 5 restaurants and
\* fewer attractions, where the attraction request would have succeeded
\* without the exchange
C22_Witness ==
  /\ resp.op = "postRestaurant"
  /\ resp.status = 400
  /\ resp.body = "Restaurant limit (5) reached"
  /\ Len(MyCities) = 1
  /\ Len(MyCities[1].restaurants) = 5
  /\ Len(MyCities[1].attractions) < 5

\* C23 as stated: when the data file cannot be read or parsed, GET /cities
\* answers with an empty list instead of failing.
C23_UnreadableFileIsEmpty ==
  (resp.op = "getCities" /\ data = Unreadable)
    => (resp.status = 200 /\ resp.body = <<>>)

\* the data file shows the update of request r
Reflected(r) ==
  LET mine == ListOfUser(SessionUser(r.s)) IN
  IF r.op = "postCity"
  THEN \E i \in 1..Len(mine) : mine[i].name = r.req.name
  ELSE \E i \in 1..Len(mine) :
         /\ mine[i].name = r.req.cityName
         /\ LET list == IF r.op = "postAttraction" THEN mine[i].attractions
                        ELSE mine[i].restaurants
            IN  \E j \in 1..Len(list) : list[j] = r.req.item

C25_Step ==
  /\ (resp'.op = "register" /\ resp'.status = 200)
       => \E i \in 1..Len(ConfiguredUsers(config', users', files')) :
            ConfiguredUsers(config', users', files')[i] = resp'.req
  /\ (resp'.op = "login" /\ resp'.status = 200)
       => \E i \in 1..Len(ConfiguredUsers(config, users, files)) :
            ConfiguredUsers(config, users, files)[i] = resp'.req
  /\ (resp'.op = "postCity" /\ resp'.status = 200)
       => LET now == CitiesFile(config.data, config', data', files') IN
          /\ session[resp'.s] \in DOMAIN now
          /\ \E i \in 1..Len(now[session[resp'.s]]) :
               now[session[resp'.s]][i].name = resp'.req.name
          /\ \A name \in CitiesFileNames \ {config.data} :
               CitiesFile(name, config', data', files') =
                 CitiesFile(name, config, data, files)

C25_RoutesFollowConfig == [][C25_Step]_vars

\* C26: editing a city through handleUpdateCity with a new name updates that
\* city: after the request and the refresh the user's list holds the city
\* under the new name, holds no entry with the old name, and is as long as
\* before
C26_Step ==
  (/\ resp'.op = "handleUpdateCity"
   /\ resp'.req.name # resp'.req.city.name)
    => LET before == CitiesIn(data, U1)
           after  == resp'.body
       IN  /\ \E i \in 1..Len(after) : after[i].name = resp'.req.name
           /\ \A i \in 1..Len(after) : after[i].name # resp'.req.city.name
           /\ Len(after) = Len(before)

C26_RenameReplaces == [][C26_Step]_vars

\* C27: from an empty database, after any sequence of requests no user's
\* city list holds two cities with the same name, while the same name may be
\* in the lists of different users
C27_NamesUniquePerUser ==
  \A u \in Usernames :
    \A i, j \in 1..Len(ListOfUser(u)) :
      ListOfUser(u)[i].name = ListOfUser(u)[j].name => i = j

\* both users hold a city of the same name, and the last request was a
\* POST /cities with a name its sender already held
C27_Witness ==
  /\ \E i \in 1..Len(ListOfUser(U1)) : \E j \in 1..Len(ListOfUser(U2)) :
       ListOfUser(U1)[i].name = ListOfUser(U2)[j].name
  /\ resp.op = "postCity" /\ resp.status = 200
  /\ "restaurants" \in DOMAIN resp.req

\* a successful mutating request that left every user's list as it was
ChangesNoList ==
  /\ resp'.op \in MutatingOps
  /\ resp'.status = 200
  /\ \A u \in Usernames : u \in DOMAIN data /\ u \in DOMAIN data' => data'[u] = data[u]
  /\ \A u \in Usernames : u \in DOMAIN data <=> u \in DOMAIN data'

\* C28 as stated: a successful request that changes no user's city list
\* leaves the guest snapshot `latest` unchanged
C28_StepAsStated == ChangesNoList => data'[LatestKey] = data[LatestKey]

C28_NoOpKeepsLatest == [][C28_StepAsStated]_vars

\* C28, amended: a successful request that changes no user's city list sets
\* the guest snapshot `latest` to its sender's list and changes nothing else
\* in the file, so the guest view changes exactly when `latest` held a
\* different list before
C28_Step ==
  ChangesNoList
    => /\ data'[LatestKey] = data'[SessionUser(resp'.s)]
       /\ CitiesIn(data', <<>>) = CitiesIn(data', SessionUser(resp'.s))
       /\ (data'[LatestKey] = data[LatestKey]
             <=> data[LatestKey] = data[SessionUser(resp'.s)])

C28_NoOpSetsLatestToSender == [][C28_Step]_vars

\* the first user just added attraction 1 again (it stands before attraction
\* 2, so it was there already); `latest` is that user's list, which differs
\* from what the second user stored
C28_Witness ==
  /\ resp.op = "postAttraction"
  /\ resp.status = 200
  /\ resp.req.item = 1
  /\ SessionUser(resp.s) = U1
  /\ U1 \in DOMAIN data
  /\ Len(data[U1]) = 1
  /\ data[U1][1].attractions = <<1, 2>>
  /\ U2 \in DOMAIN data
  /\ Len(data[U2]) = 1
  /\ data[U2] # data[U1]
  /\ data[LatestKey] = data[U1]

\* C29: with several requests of the same user in flight at once, no
\* interleaving lets that user's stored list exceed 10 cities or a stored
\* city exceed 5 attractions or 5 restaurants: between the limit check of a
\* request (made on the file it read) and its write, no other request writes
C29_LimitsHoldInFlight ==
  /\ Len(ListOfUser(U1)) <= maxCitiesPerUser
  /\ \A i \in 1..Len(ListOfUser(U1)) :
       /\ Len(ListOfUser(U1)[i].attractions) <= maxAttractionsPerCity
       /\ Len(ListOfUser(U1)[i].restaurants) <= maxRestaurantsPerCity
  /\ \A id \in DOMAIN requests :
       requests[id].pc = "running" => requests[id].read = data

\* two requests were in flight together; the one handled first filled the
\* list to its limit and the other was refused
C29_Witness ==
  /\ DOMAIN requests = {1, 2}
  /\ requests[1].pc = "done" /\ requests[2].pc = "done"
  /\ requests[1].op = requests[2].op
  /\ requests[1].req # requests[2].req
  /\ {requests[1].status, requests[2].status} = {200, 400}
  /\ \/ Len(ListOfUser(U1)) = maxCitiesPerUser
     \/ Len(ListOfUser(U1)[1].attractions) = maxAttractionsPerCity

\* C30: in every database reached through the API under the limits 10/5/5
\* the read-time truncation drops nothing: GET /cities of a user who has an
\* entry returns exactly that user's stored list, with every stored
\* attraction and restaurant of every city
C30_ReadReturnsStoredList ==
  /\ \A u \in Usernames : u \in DOMAIN data => CitiesIn(data, u) = data[u]
  /\ (/\ resp.op = "getCities"
      /\ resp.status = 200
      /\ SessionUser(resp.s) \in DOMAIN data)
       => resp.body = data[SessionUser(resp.s)]

\* GET /cities just returned a list at the city limit whose first city is at
\* the attraction and the restaurant limit
C30_Witness ==
  /\ resp.op = "getCities"
  /\ resp.status = 200
  /\ Len(resp.body) = maxCitiesPerUser
  /\ Len(resp.body[1].attractions) = maxAttractionsPerCity
  /\ Len(resp.body[1].restaurants) = maxRestaurantsPerCity
  /\ resp.body = data[U1]

====
